---- MODULE Spec2Model ----
(***************************************************************************)
(* Persistent background job queue of galaplate/core (queue/queue.go).     *)
(* The jobs table is the only shared state between the workers; every      *)
(* database statement is one atomic step, the Go code between two          *)
(* statements is local to the worker.                                      *)
(***************************************************************************)
EXTENDS Integers, Sequences, FiniteSets, TLC

\* ---------------------------------------------------------------- bounds
NumWorkers == 2
MaxJobs == 1
MaxTime == 1
MaxAttemptsCap == 3
MaxRetryAfter == 1
\* rows already in the table when the process starts (other specifications)
MaxPreRows == 2
\* callers of ResolveJob
NumCallers == 3
\* goroutines calling Queue.Start, and most Queue.Start calls
NumStarters == 2
MaxQStarts == 3
\* most increments of a handler object's field
MaxMut == 2
\* most cron entries per scheduler name, clock ticks and Scheduler.Start calls
MaxEntries == 2
MaxTicks == 2
MaxStartCalls == 3

Workers == 1..NumWorkers

\* ------------------------------------------------------------- constants
JobPending == "pending"
JobStarted == "started"
JobFinished == "finished"
JobFailed == "failed"

\* nil *time.Time / unset timestamp
NoTime == -1
\* no error returned by Handle
NoErr == "<nil>"

JobTypes == {"email", "noop"}
\* error texts a handler may return from Handle (err.Error())
ErrTexts == {"", "smtp down"}
\* Handle results: nil or an error with one of the texts
HandleResults == {NoErr} \cup ErrTexts

\* handlers the application can register; "noop" has no handler at all
Handlers == [type : {"email"}, max : 1..MaxAttemptsCap, retry : 0..MaxRetryAfter]
\* the two handlers this application registers: one retried at once, up to
\* the cap, and one retried after the longest delay
AppHandlers == {h \in Handlers : h.max + h.retry = MaxAttemptsCap}
NoHandler == [type |-> "", max |-> 0, retry |-> 0]

VARIABLES
    now,        \* wall clock (time.Now())
    jobs,       \* the jobs table: sequence of rows, row id = index
    registry,   \* package-level registry: type name -> handler or NoHandler
    started,    \* Queue.started
    cancelled,  \* Queue.ctx is done (Queue.cancel was called)
    hasTable,   \* database has the jobs table
    pc,         \* position of each worker goroutine
    rec,        \* each worker's local jobRecord (id and attempts)
    start,      \* each worker's local start := time.Now()
    sd,         \* position / result of the Queue.Shutdown call
    winCount,   \* history: successful claims per (id, attempts read by the select)
    handleCount, \* history: Handle invocations begun per job id
    dispatched, \* history: Dispatch calls made so far
    dispatchRet, \* what the last Dispatch call returned: "none", "nil", "error"
    lateClaims, \* history: successful claims of each worker after q.cancel()
    lateFinal,  \* history: workers that wrote a job's outcome after Shutdown
                \* had returned its timeout error
    byPtr,      \* the application's job types are pointers (RegisterJob(&J{}))
    held,       \* what each caller's last ResolveJob call returned, and whether
                \* the caller has called Handle on it
    objState,   \* a field of each handler object that its Handle increments
    seen,       \* history: values of that field each caller's Handle calls found
    lastReg,    \* history: the handler last passed to RegisterJob, per type
    schedRegistry, \* scheduler.SchedulerRegistry: names registered
    entries,    \* the cron instance's entries: how many per registered name
    schedStarted, \* Scheduler.started
    cronRunning, \* the cron instance's running flag
    clockStarts, \* history: times the cron clock goroutine was launched
    ticks,      \* history: ticks of the cron clock
    startCalls, \* history: Scheduler.Start calls made
    invoked,    \* history: invocations of each entry's callback
    inflight,   \* callbacks running now (the cron instance's jobWaiter)
    ssd,        \* position / result of the Scheduler.Shutdown call
    lateReturns, \* history: callbacks that returned after Scheduler.Shutdown
                \* had returned its timeout error
    appPc,      \* position of the signal handler's AppInstance.Shutdown call
    appRet,     \* what AppInstance.Shutdown returned: "none", "nil", "error"
    appLog,     \* what the shutdown path has logged
    lost,       \* workers whose latest conditional update affected no row
    startCall,  \* each caller's Queue.Start call: position, ordinal,
                \* workerCount, workers left to spawn
    startHist,  \* history of the Queue.Start calls: how many took the lock,
                \* workers spawned by each, the first call's workerCount and
                \* what it found of the jobs table, whether it has returned
    job,        \* each worker's local job, as ResolveJob returned it
    helper,     \* position of the goroutine Shutdown starts to run q.wg.Wait()
    swapped     \* history: rows whose type got another handler registered
                \* while the row existed

\* variable groups, by the component that writes them
dvars == <<dispatched, dispatchRet>>
rvars == <<byPtr, held, objState, seen, lastReg>>
cvars == <<inflight, ssd, lateReturns>>
avars == <<appPc, appRet, appLog>>
\* the variables no queue, registry or scheduler operation writes
tvars == <<startCall, startHist>>
xvars == <<avars, lost, tvars, job, helper, swapped>>
svars == <<schedRegistry, entries, schedStarted, cronRunning, clockStarts, ticks,
           startCalls, invoked, cvars>>

vars == <<now, jobs, registry, started, cancelled, hasTable, pc, rec, start,
          sd, winCount, handleCount, dvars, lateClaims, lateFinal, rvars, svars,
          xvars>>

\* -------------------------------------------------------------- helpers
NoRec == [id |-> 0, attempts |-> 0, type |-> ""]

JobIds == 1..Len(jobs)

\* gorm Updates(struct): zero-valued fields of the struct are not written
ZeroJob == [state |-> "", attempts |-> 0, error_msg |-> "",
            available_at |-> NoTime, started_at |-> NoTime, finished_at |-> NoTime]

Updates(row, vals) ==
    [f \in DOMAIN row |->
        IF f \in DOMAIN vals /\ vals[f] # ZeroJob[f] THEN vals[f] ELSE row[f]]

\* rows matching  state = pending AND available_at <= t
EligibleAnyTime(t) ==
    {j \in JobIds : jobs[j].state = JobPending}

Eligible(t) ==
    {j \in JobIds : jobs[j].state = JobPending /\ jobs[j].available_at <= t}

\* ORDER BY created_at ASC ... First: the rows the store may return
Oldest(t) ==
    {j \in Eligible(t) : \A k \in Eligible(t) : jobs[j].created_at <= jobs[k].created_at}

NotRegisteredMsg(typeName) == "job type '" \o typeName \o "' not registered"

\* ResolveJob: handler for the type, or NoHandler when not registered
ResolveJob(typeName) == registry[typeName]

\* (id, attempts read by the select) pairs a claim can be made for
ClaimPairs == (1..(MaxJobs + MaxPreRows)) \X (0..MaxAttemptsCap)

\* ----------------------------------------------------------------- Init
Callers == 1..NumCallers
Starters == 1..NumStarters

\* no Queue.Start call in progress
IdleCall == [pc |-> "idle", no |-> 0, n |-> 0, left |-> 0]

NoStarts ==
    [calls |-> 0, spawned |-> [k \in 1..MaxQStarts |-> 0], firstN |-> 0,
     firstTable |-> "unknown", firstDone |-> FALSE]
Cleanup == "cleanup"
Report == "report"
SchedNames == {Cleanup, Report}

\* result of a ResolveJob call: (Job, error)
NoResult == [type |-> "", job |-> NoHandler, err |-> NoErr, handled |-> FALSE]

\* package-level state of the queue package and a Queue from New()
InitRegistry ==
    /\ registry = [t \in JobTypes |-> NoHandler]
    /\ lastReg = [t \in JobTypes |-> NoHandler]
    /\ held = [c \in Callers |-> NoResult]
    /\ objState = [h \in Handlers |-> 0]
    /\ seen = [c \in Callers |-> {}]

InitQueue ==
    /\ now = 0
    /\ started = FALSE
    /\ cancelled = FALSE
    /\ pc = [w \in Workers |-> "none"]
    /\ rec = [w \in Workers |-> NoRec]
    /\ start = [w \in Workers |-> NoTime]
    /\ sd = "idle"
    /\ winCount = [p \in ClaimPairs |-> 0]
    /\ dispatched = 0
    /\ dispatchRet = "none"
    /\ lateClaims = [w \in Workers |-> 0]
    /\ lateFinal = {}
    /\ startCall = [c \in Starters |-> IdleCall]
    /\ startHist = NoStarts
    /\ job = [w \in Workers |-> NoHandler]
    /\ helper = "none"
    /\ swapped = {}

\* the AppInstance before any signal
InitAppInstance ==
    /\ appPc = "nosignal"
    /\ appRet = "none"
    /\ appLog = {}
    /\ lost = {}

\* package-level state of the scheduler package and a Scheduler from New()
InitScheduler ==
    /\ schedRegistry = {}
    /\ entries = [n \in SchedNames |-> 0]
    /\ schedStarted = FALSE
    /\ cronRunning = FALSE
    /\ clockStarts = 0
    /\ ticks = 0
    /\ startCalls = 0
    /\ inflight = 0
    /\ ssd = "idle"
    /\ lateReturns = 0
    /\ invoked = [n \in SchedNames |-> 0]

Init ==
    /\ InitQueue
    /\ InitRegistry
    /\ InitScheduler
    /\ InitAppInstance
    /\ byPtr = FALSE
    /\ hasTable \in BOOLEAN
    /\ jobs = <<>>
    /\ handleCount = <<>>

\* -------------------------------------------------------------- actions
\* the process is running: no panic and no fatal error has ended it
Alive == \A w \in Workers : pc[w] # "dead"

\* an unrecovered panic or a fatal error of the runtime ends the process:
\* every goroutine is gone, calls in progress never return; the table is in
\* the database and stays as it is
ProcessDies ==
    /\ pc' = [w \in Workers |-> "dead"]
    /\ sd' = IF sd = "waiting" THEN "dead" ELSE sd
    /\ helper' = "dead"
    /\ startCall' = [d \in Starters |->
                        IF startCall[d].pc \in {"check", "spawn"}
                        THEN [startCall[d] EXCEPT !.pc = "dead"]
                        ELSE startCall[d]]

\* the clock advances
Tick ==
    /\ now < MaxTime
    /\ now' = now + 1
    /\ UNCHANGED <<jobs, registry, started, cancelled, hasTable, pc, rec,
                   start, sd, winCount, handleCount>>
    /\ UNCHANGED <<dvars, lateClaims, lateFinal, rvars, svars, xvars>>

\* rows of type t, when its registry entry is replaced by another handler h
Rehandled(h) ==
    {j \in JobIds : jobs[j].type = h.type /\ registry[h.type] \notin {NoHandler, h}}

\* RegisterJob(job): registry[job.Type()] = func() Job { return job }
RegisterJobFirstWins(h) ==
    /\ Alive
    /\ registry' = IF registry[h.type] = NoHandler
                   THEN [registry EXCEPT ![h.type] = h]
                   ELSE registry
    /\ lastReg' = [lastReg EXCEPT ![h.type] = h]
    /\ swapped' = swapped \cup Rehandled(h)
    /\ UNCHANGED <<now, jobs, started, cancelled, hasTable, pc, rec, start,
                   sd, winCount, handleCount>>
    /\ UNCHANGED <<dvars, lateClaims, lateFinal, byPtr, held, objState, seen,
                   svars, avars, lost, tvars, job, helper>>

RegisterJob(h) ==
    /\ Alive
    /\ registry' = [registry EXCEPT ![h.type] = h]
    /\ lastReg' = [lastReg EXCEPT ![h.type] = h]
    /\ swapped' = swapped \cup Rehandled(h)
    /\ UNCHANGED <<now, jobs, started, cancelled, hasTable, pc, rec, start,
                   sd, winCount, handleCount>>
    /\ UNCHANGED <<dvars, lateClaims, lateFinal, byPtr, held, objState, seen,
                   svars, avars, lost, tvars, job, helper>>

\* the registry is a plain map: RegisterJob writing it while a worker's
\* ResolveJob reads it is a data race, which the runtime can answer with
\* "fatal error: concurrent map read and map write"
RegisterJobRace(h) ==
    /\ \E w \in Workers : pc[w] = "resolve"
    /\ ProcessDies
    /\ UNCHANGED <<now, jobs, registry, started, cancelled, hasTable, rec,
                   start, winCount, handleCount>>
    /\ UNCHANGED <<dvars, lateClaims, lateFinal, rvars, svars, avars, lost,
                   startHist, job, swapped>>

\* what ResolveJob(typeName, payload) returns: (creator(), nil) or
\* (nil, "job type '...' not registered")
ResolveResult(typeName) ==
    IF ResolveJob(typeName) = NoHandler
    THEN [type |-> typeName, job |-> NoHandler,
          err |-> NotRegisteredMsg(typeName), handled |-> FALSE]
    ELSE [type |-> typeName, job |-> ResolveJob(typeName), err |-> NoErr,
          handled |-> FALSE]

\* a caller calls ResolveJob(typeName, payload) and keeps what it returns
CallResolve(c, typeName) ==
    /\ held' = [held EXCEPT ![c] = ResolveResult(typeName)]
    /\ UNCHANGED <<now, jobs, registry, started, cancelled, hasTable, pc, rec,
                   start, sd, winCount, handleCount>>
    /\ UNCHANGED <<dvars, lateClaims, lateFinal, byPtr, objState, seen, lastReg,
                   svars, xvars>>

\* a caller calls Handle, once, on the job it holds; Handle reads a field of its
\* receiver and increments it.  The closure stored by RegisterJob returns the
\* interface value it captured: for a pointer type that is the registered
\* object itself, so the increment stays in it; for a struct type Handle has
\* a value receiver and increments a copy that is dropped on return.
CallHandle(c) ==
    /\ held[c].job # NoHandler
    /\ ~held[c].handled
    /\ objState[held[c].job] < MaxMut
    /\ held' = [held EXCEPT ![c].handled = TRUE]
    /\ seen' = [seen EXCEPT ![c] = @ \cup {objState[held[c].job]}]
    /\ objState' = IF byPtr
                   THEN [objState EXCEPT ![held[c].job] = @ + 1]
                   ELSE objState
    /\ UNCHANGED <<now, jobs, registry, started, cancelled, hasTable, pc, rec,
                   start, sd, winCount, handleCount>>
    /\ UNCHANGED <<dvars, lateClaims, lateFinal, byPtr, lastReg, svars, xvars>>

\* the row SaveJobToDB builds
NewJobRowRetried(typeName) ==
    [type |-> typeName, state |-> JobPending, attempts |-> 1,
     available_at |-> now, created_at |-> now, started_at |-> NoTime,
     finished_at |-> NoTime, error_msg |-> ""]

NewJobRow(typeName) ==
    [type |-> typeName, state |-> JobPending, attempts |-> 0,
     available_at |-> now, created_at |-> now, started_at |-> NoTime,
     finished_at |-> NoTime, error_msg |-> ""]

\* Dispatch(job, params...) -> SaveJobToDB: marshalOk says json.Marshal of
\* the params succeeds, insertOk that the store accepts the insert
Dispatch(typeName, marshalOk, insertOk) ==
    /\ Alive
    /\ dispatched < MaxJobs
    /\ insertOk => hasTable
    /\ dispatched' = dispatched + 1
    /\ IF marshalOk /\ insertOk
       THEN /\ jobs' = Append(jobs, NewJobRow(typeName))
            /\ handleCount' = Append(handleCount, 0)
            /\ dispatchRet' = "nil"
       ELSE /\ dispatchRet' = "error"
            /\ UNCHANGED <<jobs, handleCount>>
    /\ UNCHANGED <<now, registry, started, cancelled, hasTable, pc, rec,
                   start, sd, winCount>>
    /\ UNCHANGED <<lateClaims, lateFinal, rvars, svars, xvars>>

\* a migration creates the jobs table (Schema.Create in the Up of the jobs
\* migration)
CreateTable ==
    /\ ~hasTable
    /\ hasTable' = TRUE
    /\ UNCHANGED <<now, jobs, registry, started, cancelled, pc, rec, start,
                   sd, winCount, handleCount>>
    /\ UNCHANGED <<dvars, lateClaims, lateFinal, rvars, svars, xvars>>

\* Schema.DropIfExists("jobs") (the Down of the jobs migration, run by
\* Migrator.Down, Reset and Refresh): the table is gone with its rows, and
\* with them what was counted per row
DropTable ==
    /\ hasTable' = FALSE
    /\ jobs' = <<>>
    /\ handleCount' = <<>>
    /\ winCount' = [p \in ClaimPairs |-> 0]
    /\ swapped' = {}
    /\ UNCHANGED <<now, registry, started, cancelled, pc, rec, start, sd>>
    /\ UNCHANGED <<dvars, lateClaims, lateFinal, rvars, svars, avars, lost,
                   tvars, job, helper>>

\* ------------------------------------------- Queue.Start, step by step
wvars == <<now, jobs, registry, cancelled, rec, start, winCount, handleCount,
           dvars, lateClaims, lateFinal, rvars, svars, avars, lost, job,
           swapped>>

\* if q.started, under q.mu
AlreadyStartedNever == FALSE

AlreadyStarted == started

\* Queue.Start(n): q.mu.Lock(); if q.started return; q.started = true
StartCall(c, n) ==
    /\ Alive
    /\ startCall[c].pc \in {"idle", "done"}
    /\ startHist.calls < MaxQStarts
    /\ LET k == startHist.calls + 1 IN
       IF AlreadyStarted
       THEN /\ startCall' = [startCall EXCEPT ![c] =
                                [pc |-> "done", no |-> k, n |-> n, left |-> 0]]
            /\ startHist' = [startHist EXCEPT !.calls = k]
            /\ UNCHANGED started
       ELSE /\ started' = TRUE
            /\ startCall' = [startCall EXCEPT ![c] =
                                [pc |-> "check", no |-> k, n |-> n, left |-> 0]]
            /\ startHist' = [startHist EXCEPT
                                !.calls = k,
                                !.firstN = IF k = 1 THEN n ELSE @]
    /\ UNCHANGED <<hasTable, pc, sd, helper, wvars>>

\* Queue.Start: if database.Connect.Migrator().HasTable(&models.Job{})
StartCheckTable(c) ==
    /\ startCall[c].pc = "check"
    /\ LET spawning == hasTable /\ startCall[c].n > 0
           done == ~spawning /\ startCall[c].no = 1 IN
       /\ startCall' = [startCall EXCEPT
                           ![c].pc = IF spawning THEN "spawn" ELSE "done",
                           ![c].left = IF spawning THEN startCall[c].n ELSE 0]
       /\ startHist' = IF startCall[c].no = 1
                       THEN [startHist EXCEPT
                               !.firstTable = IF hasTable THEN "yes" ELSE "no",
                               !.firstDone = done]
                       ELSE startHist
    /\ UNCHANGED <<started, hasTable, pc, sd, helper, wvars>>

\* q.wg: workers whose wg.Done() has not run
WgCountIdleOnly ==
    Cardinality({w \in Workers : pc[w] \notin {"none", "exited", "handle"}})

WgCount == Cardinality({w \in Workers : pc[w] \notin {"none", "exited"}})

\* Queue.Start: q.wg.Add(1); go q.worker(), once per loop iteration.  An Add
\* after the counter fell to zero finds no waiter registered any more and
\* succeeds; the waiter that was woken has not yet re-read the state.
StartSpawn(c) ==
    /\ startCall[c].pc = "spawn"
    /\ \E w \in Workers :
          /\ pc[w] = "none"
          /\ \A v \in Workers : pc[v] = "none" => w <= v
          /\ pc' = [pc EXCEPT ![w] = "loop"]
    /\ LET last == startCall[c].left = 1 IN
       /\ startCall' = [startCall EXCEPT
                           ![c].left = @ - 1,
                           ![c].pc = IF last THEN "done" ELSE "spawn"]
       /\ startHist' = [startHist EXCEPT
                           !.spawned[startCall[c].no] = @ + 1,
                           !.firstDone = @ \/ (last /\ startCall[c].no = 1)]
    /\ helper' = IF helper = "released" THEN "reused" ELSE helper
    /\ UNCHANGED <<started, hasTable, sd, wvars>>

\* worker: defer q.wg.Done().  The Done that brings the counter to zero
\* while Shutdown's goroutine is blocked in q.wg.Wait() resets the state of
\* the WaitGroup and wakes the waiter.
WgDone ==
    helper' = IF helper = "blocked" /\ WgCount = 1 THEN "released" ELSE helper

\* <-q.ctx.Done() is ready
CtxDoneNever == FALSE

CtxDone == cancelled

\* worker: select { case <-q.ctx.Done(): return; default: }
WCheck(w) ==
    /\ pc[w] = "loop"
    /\ pc' = [pc EXCEPT ![w] = IF CtxDone THEN "exited" ELSE "select"]
    /\ IF CtxDone THEN WgDone ELSE UNCHANGED helper
    /\ UNCHANGED <<now, jobs, registry, started, cancelled, hasTable, rec,
                   start, sd, winCount, handleCount>>
    /\ UNCHANGED <<dvars, lateClaims, lateFinal, rvars, svars, avars, lost,
                   tvars, job, swapped>>

\* worker: start := time.Now(); First(&jobRecord) finds a row
WSelect(w) ==
    /\ pc[w] = "select"
    /\ \E j \in Oldest(now) :
          /\ rec' = [rec EXCEPT ![w] = [id |-> j, attempts |-> jobs[j].attempts,
                                        type |-> jobs[j].type]]
          /\ start' = [start EXCEPT ![w] = now]
          /\ pc' = [pc EXCEPT ![w] = "claim"]
    /\ UNCHANGED <<now, jobs, registry, started, cancelled, hasTable, sd,
                   winCount, handleCount>>
    /\ UNCHANGED <<dvars, lateClaims, lateFinal, rvars, svars, xvars>>

\* worker: First(&jobRecord) returns ErrRecordNotFound
WSelectNone(w) ==
    /\ pc[w] = "select"
    /\ hasTable
    /\ Eligible(now) = {}
    /\ pc' = [pc EXCEPT ![w] = "idle"]
    /\ UNCHANGED <<now, jobs, registry, started, cancelled, hasTable, rec,
                   start, sd, winCount, handleCount>>
    /\ UNCHANGED <<dvars, lateClaims, lateFinal, rvars, svars, xvars>>

\* worker: First(&jobRecord) fails with a store error (the table is missing,
\* the connection is lost)
WSelectError(w) ==
    /\ pc[w] = "select"
    /\ pc' = [pc EXCEPT ![w] = "idle"]
    /\ UNCHANGED <<now, jobs, registry, started, cancelled, hasTable, rec,
                   start, sd, winCount, handleCount>>
    /\ UNCHANGED <<dvars, lateClaims, lateFinal, rvars, svars, xvars>>

\* worker, after a failed select: case <-q.ctx.Done(): return
WIdleExit(w) ==
    /\ pc[w] = "idle"
    /\ cancelled
    /\ pc' = [pc EXCEPT ![w] = "exited"]
    /\ WgDone
    /\ UNCHANGED <<now, jobs, registry, started, cancelled, hasTable, rec,
                   start, sd, winCount, handleCount>>
    /\ UNCHANGED <<dvars, lateClaims, lateFinal, rvars, svars, avars, lost,
                   tvars, job, swapped>>

\* worker, after a failed select: case <-time.After(1 * time.Second): continue
WIdleRetry(w) ==
    /\ pc[w] = "idle"
    /\ pc' = [pc EXCEPT ![w] = "loop"]
    /\ UNCHANGED <<now, jobs, registry, started, cancelled, hasTable, rec,
                   start, sd, winCount, handleCount>>
    /\ UNCHANGED <<dvars, lateClaims, lateFinal, rvars, svars, xvars>>

\* WHERE id = ? AND state = 'pending' of the claim, on the row with that id
ClaimGuardAnyState(row) == TRUE

ClaimGuard(row) == row.state = JobPending

\* the row written by the claim:  jobRecord.Attempts++ ; UPDATE ... SET state,
\* started_at, attempts WHERE id = ? AND state = 'pending'
ClaimVals(w) ==
    [state |-> JobStarted, started_at |-> start[w], attempts |-> rec[w].attempts + 1]

\* where the worker goes when RowsAffected == 0: continue
AfterLostRaceIdle == "idle"

AfterLostRace == "loop"

\* worker: the conditional update; RowsAffected == 0 (no row with that id is
\* Pending, or the statement failed) -> continue
WClaim(w) ==
    /\ pc[w] = "claim"
    /\ LET j == rec[w].id IN
       IF j \in JobIds /\ ClaimGuard(jobs[j])
       THEN /\ jobs' = [jobs EXCEPT ![j] = Updates(jobs[j], ClaimVals(w))]
            /\ rec' = [rec EXCEPT ![w].attempts = rec[w].attempts + 1]
            /\ winCount' = [winCount EXCEPT ![<<j, rec[w].attempts>>] = @ + 1]
            /\ pc' = [pc EXCEPT ![w] = "resolve"]
            /\ lateClaims' = [lateClaims EXCEPT ![w] = IF cancelled THEN @ + 1 ELSE @]
            /\ lost' = lost \ {w}
            /\ UNCHANGED start
       ELSE /\ pc' = [pc EXCEPT ![w] = AfterLostRace]
            /\ rec' = [rec EXCEPT ![w] = NoRec]
            /\ start' = [start EXCEPT ![w] = NoTime]
            /\ lost' = lost \cup {w}
            /\ UNCHANGED <<jobs, winCount, lateClaims>>
    /\ UNCHANGED <<now, registry, started, cancelled, hasTable, sd, handleCount>>
    /\ UNCHANGED <<dvars, lateFinal, rvars, svars, avars, tvars, job, helper,
                   swapped>>

\* failJob(job, err)
failJobRequeue(row, errText) ==
    Updates(row, [state |-> JobPending, error_msg |-> errText, finished_at |-> now])

failJob(row, errText) ==
    Updates(row, [state |-> JobFailed, error_msg |-> errText, finished_at |-> now])

\* worker: ResolveJob(jobRecord.Type, ...); on error failJob and continue,
\* else call job.Handle.  The updates go by the id of jobRecord and write
\* nothing when no row has it.
WResolve(w) ==
    /\ pc[w] = "resolve"
    /\ LET j == rec[w].id
           h == ResolveJob(rec[w].type) IN
       IF h = NoHandler
       THEN /\ jobs' = IF j \in JobIds
                       THEN [jobs EXCEPT ![j] =
                               failJob(jobs[j], NotRegisteredMsg(rec[w].type))]
                       ELSE jobs
            /\ pc' = [pc EXCEPT ![w] = "loop"]
            /\ rec' = [rec EXCEPT ![w] = NoRec]
            /\ start' = [start EXCEPT ![w] = NoTime]
            /\ UNCHANGED <<handleCount, job>>
       ELSE /\ pc' = [pc EXCEPT ![w] = "handle"]
            /\ job' = [job EXCEPT ![w] = h]
            /\ handleCount' = IF j \in JobIds
                              THEN [handleCount EXCEPT ![j] = @ + 1]
                              ELSE handleCount
            /\ UNCHANGED <<jobs, rec, start>>
    /\ UNCHANGED <<now, registry, started, cancelled, hasTable, sd, winCount>>
    /\ UNCHANGED <<dvars, lateClaims, lateFinal, rvars, svars, avars, lost,
                   tvars, helper, swapped>>

FinalizeNoRequeue(row, attempts, h, r) ==
    IF r # NoErr
    THEN IF attempts >= h.max
         THEN failJob(row, r)
         ELSE Updates(row, [error_msg |-> r, available_at |-> now + h.retry])
    ELSE Updates(row, [state |-> JobFinished, finished_at |-> now])

FinalizeOffByOne(row, attempts, h, r) ==
    IF r # NoErr
    THEN IF attempts > h.max
         THEN failJob(row, r)
         ELSE Updates(row, [state |-> JobPending, error_msg |-> r,
                            available_at |-> now + h.retry])
    ELSE Updates(row, [state |-> JobFinished, finished_at |-> now])

\* the row written after Handle returned r, by the worker holding a record
\* with the given attempts, for the job h that ResolveJob gave it
Finalize(row, attempts, h, r) ==
    IF r # NoErr
    THEN IF attempts >= h.max
         THEN failJob(row, r)
         ELSE Updates(row, [state |-> JobPending, error_msg |-> r,
                            available_at |-> now + h.retry])
    ELSE Updates(row, [state |-> JobFinished, finished_at |-> now])

\* worker: job.Handle returns r and the worker writes the outcome, with the
\* MaxAttempts and RetryAfter of the job it resolved before the call
WHandleReturn(w, r) ==
    /\ pc[w] = "handle"
    /\ LET j == rec[w].id IN
       jobs' = IF j \in JobIds
               THEN [jobs EXCEPT ![j] =
                       Finalize(jobs[j], rec[w].attempts, job[w], r)]
               ELSE jobs
    /\ pc' = [pc EXCEPT ![w] = "loop"]
    /\ rec' = [rec EXCEPT ![w] = NoRec]
    /\ start' = [start EXCEPT ![w] = NoTime]
    /\ job' = [job EXCEPT ![w] = NoHandler]
    /\ lateFinal' = IF sd = "timeout" THEN lateFinal \cup {w} ELSE lateFinal
    /\ UNCHANGED <<now, registry, started, cancelled, hasTable, sd, winCount,
                   handleCount>>
    /\ UNCHANGED <<dvars, lateClaims, rvars, svars, avars, lost, tvars, helper,
                   swapped>>

\* Queue.Shutdown(ctx): returns nil when not started, else cancels and starts
\* the goroutine that waits for the workers
ShutdownCall ==
    /\ Alive
    /\ sd = "idle"
    /\ IF ~started
       THEN sd' = "nil" /\ UNCHANGED <<cancelled, helper>>
       ELSE sd' = "waiting" /\ cancelled' = TRUE /\ helper' = "spawned"
    /\ UNCHANGED <<now, jobs, registry, started, hasTable, pc, rec, start,
                   winCount, handleCount>>
    /\ UNCHANGED <<dvars, lateClaims, lateFinal, rvars, svars, avars, lost,
                   tvars, job, swapped>>

\* Shutdown's goroutine calls q.wg.Wait(): on a zero counter it returns at
\* once and the goroutine closes done, else it blocks as a waiter
HelperWait ==
    /\ helper = "spawned"
    /\ helper' = IF WgCount = 0 THEN "closed" ELSE "blocked"
    /\ UNCHANGED <<now, jobs, registry, started, cancelled, hasTable, pc, rec,
                   start, sd, winCount, handleCount>>
    /\ UNCHANGED <<dvars, lateClaims, lateFinal, rvars, svars, avars, lost,
                   tvars, job, swapped>>

\* the waiter that a wg.Done() has woken re-reads the state of the
\* WaitGroup: when the counter is zero q.wg.Wait() returns and the goroutine
\* closes done
HelperWake ==
    /\ helper \in {"released", "reused"}
    /\ WgCount = 0
    /\ helper' = "closed"
    /\ UNCHANGED <<now, jobs, registry, started, cancelled, hasTable, pc, rec,
                   start, sd, winCount, handleCount>>
    /\ UNCHANGED <<dvars, lateClaims, lateFinal, rvars, svars, avars, lost,
                   tvars, job, swapped>>

\* the woken waiter re-reads the state after a q.wg.Add(1) of Queue.Start
\* has raised the counter again and before the new workers have exited:
\* q.wg.Wait() panics ("WaitGroup is reused before previous Wait has
\* returned"), which ends the process.  The waiter lives on after Shutdown
\* has returned through ctx.Done().
HelperWaitPanic ==
    /\ helper = "reused"
    /\ WgCount > 0
    /\ ProcessDies
    /\ UNCHANGED <<started, hasTable, startHist, wvars>>

\* Queue.Start: q.wg.Add(1) while the wg.Done() that brought the counter to
\* zero is waking the waiter, which is still registered: Add panics
\* ("Add called concurrently with Wait"), which ends the process.  The waiter
\* lives on after Shutdown has returned through ctx.Done().
StartSpawnPanic(c) ==
    /\ startCall[c].pc = "spawn"
    /\ helper = "released"
    /\ ProcessDies
    /\ UNCHANGED <<started, hasTable, startHist, wvars>>

\* Queue.Shutdown: case <-done: return nil
ShutdownDone ==
    /\ sd = "waiting"
    /\ helper = "closed"
    /\ sd' = "nil"
    /\ UNCHANGED <<now, jobs, registry, started, cancelled, hasTable, pc, rec,
                   start, winCount, handleCount>>
    /\ UNCHANGED <<dvars, lateClaims, lateFinal, rvars, svars, xvars>>

\* Queue.Shutdown: case <-ctx.Done(): return ctx.Err()
ShutdownTimeout ==
    /\ sd = "waiting"
    /\ sd' = "timeout"
    /\ UNCHANGED <<now, jobs, registry, started, cancelled, hasTable, pc, rec,
                   start, winCount, handleCount>>
    /\ UNCHANGED <<dvars, lateClaims, lateFinal, rvars, svars, xvars>>

\* one goroutine of the application calls Queue.Start, once
StartOnce ==
    \/ \E n \in 1..NumWorkers : startHist.calls = 0 /\ StartCall(1, n)
    \/ StartCheckTable(1)
    \/ StartSpawn(1)

Next ==
    \/ Tick
    \/ \E h \in AppHandlers : RegisterJob(h)
    \/ \E h \in AppHandlers : RegisterJobRace(h)
    \/ \E t \in JobTypes : \E m, i \in BOOLEAN : Dispatch(t, m, i)
    \/ StartOnce
    \/ StartSpawnPanic(1)
    \/ \E w \in Workers : WCheck(w)
    \/ \E w \in Workers : WSelect(w)
    \/ \E w \in Workers : WSelectNone(w)
    \/ \E w \in Workers : WSelectError(w)
    \/ \E w \in Workers : WIdleExit(w)
    \/ \E w \in Workers : WIdleRetry(w)
    \/ \E w \in Workers : WClaim(w)
    \/ \E w \in Workers : WResolve(w)
    \/ \E w \in Workers : \E r \in HandleResults : WHandleReturn(w, r)
    \/ ShutdownCall
    \/ HelperWait
    \/ HelperWake
    \/ HelperWaitPanic
    \/ ShutdownDone
    \/ ShutdownTimeout

Spec == Init /\ [][Next]_vars

TypeOK ==
    /\ now \in 0..MaxTime
    /\ Len(jobs) <= MaxJobs + MaxPreRows
    /\ \A j \in JobIds : jobs[j].attempts \in 0..MaxAttemptsCap

\* ------------------------------------------------------------ properties
Terminal == {JobFinished, JobFailed}

\* workers between a successful claim of job j and their finalize write
Owners(j) == {w \in Workers : pc[w] \in {"resolve", "handle"} /\ rec[w].id = j}

\* workers inside Handle for job j
InHandle(j) == {w \in Workers : pc[w] = "handle" /\ rec[w].id = j}

\* successful claims of job j so far
ClaimCount(j) ==
    LET RECURSIVE Sum(_)
        Sum(a) == IF a < 0 THEN 0 ELSE winCount[<<j, a>>] + Sum(a - 1)
    IN Sum(MaxAttemptsCap)

\* this step is a successful claim of row j
ClaimedStep(j) == jobs[j].state = JobPending /\ jobs'[j].state = JobStarted

\* C1: at every moment at most one worker is between its successful claim
\* of a job and its finalize write for that job, and at most one worker is
\* inside Handle for the job.
C1_MutualExclusion ==
    \A j \in JobIds : Cardinality(Owners(j)) <= 1 /\ Cardinality(InHandle(j)) <= 1

\* one worker runs Handle for the job while another one, which selected the
\* same row earlier, is about to try its conditional update
C1_Witness ==
    \E w1, w2 \in Workers :
        /\ w1 # w2
        /\ pc[w1] = "handle" /\ pc[w2] = "claim"
        /\ rec[w1].id = rec[w2].id

\* C2: every successful claim raises the stored attempts of the row by
\* exactly 1 relative to the value stored immediately before the update.
C2_ClaimRaisesByOne ==
    [][\A j \in JobIds : ClaimedStep(j) => jobs'[j].attempts = jobs[j].attempts + 1]_vars

\* C3: the stored attempts of a row never decreases.
C3_AttemptsMonotone ==
    [][\A j \in JobIds : jobs'[j].attempts >= jobs[j].attempts]_vars

\* C4: for every (id, attempts read by the select) pair at most one
\* conditional update reports rows-affected = 1.
C4_ExactlyOneClaimant ==
    \A p \in ClaimPairs : winCount[p] <= 1

\* C5: a row is claimed (Pending -> Started) only when its stored
\* available_at is <= now.
C5_ClaimedOnlyWhenDue ==
    [][\A j \in JobIds : ClaimedStep(j) => jobs[j].available_at <= now]_vars

\* C6: for a job whose handler has MaxAttempts() = M >= 1, Handle is invoked
\* at most M times over the whole life of the row (the handler of the row's
\* type being the same one over that life).
C6_BoundedRetries ==
    \A j \in JobIds :
        (ResolveJob(jobs[j].type) # NoHandler /\ j \notin swapped) =>
            handleCount[j] <= ResolveJob(jobs[j].type).max

\* C7: once a row is Finished or Failed no step changes any of its fields,
\* the eligibility select does not return it and no claim of it succeeds.
C7_TerminalImmutable ==
    [][\A j \in JobIds :
          jobs[j].state \in Terminal =>
              /\ jobs'[j] = jobs[j]
              /\ j \notin Oldest(now)
              /\ \A a \in 0..MaxAttemptsCap : winCount'[<<j, a>>] = winCount[<<j, a>>]]_vars

\* a row is terminal while another worker still holds the record it
\* selected when the row was Pending and is about to try its update
C7_Witness ==
    \E w \in Workers :
        /\ pc[w] = "claim"
        /\ jobs[rec[w].id].state \in Terminal

\* C8: every change of a row's state is Pending -> Started by a successful
\* claim, Started -> Finished when Handle returned nil, Started -> Failed
\* when Handle failed with attempts exhausted or the type does not resolve,
\* or Started -> Pending when Handle failed with attempts remaining.
C8_Transitions ==
    [][\A j \in JobIds :
          jobs'[j].state # jobs[j].state =>
              \E w \in Workers :
                  /\ rec[w].id = j
                  /\ \/ /\ jobs[j].state = JobPending /\ jobs'[j].state = JobStarted
                        /\ WClaim(w)
                     \/ /\ jobs[j].state = JobStarted /\ jobs'[j].state = JobFinished
                        /\ WHandleReturn(w, NoErr)
                     \/ /\ jobs[j].state = JobStarted /\ jobs'[j].state = JobFailed
                        /\ \/ /\ \E r \in ErrTexts : WHandleReturn(w, r)
                              /\ jobs[j].attempts >= job[w].max
                           \/ /\ WResolve(w)
                              /\ ResolveJob(jobs[j].type) = NoHandler
                     \/ /\ jobs[j].state = JobStarted /\ jobs'[j].state = JobPending
                        /\ \E r \in ErrTexts : WHandleReturn(w, r)
                        /\ jobs[j].attempts < job[w].max]_vars

\* a row that was claimed, re-queued after a failure, claimed again and
\* finished
C8_Witness ==
    \E j \in JobIds : jobs[j].state = JobFinished /\ jobs[j].attempts >= 2

\* C9: when Handle returns an error the worker writes Failed with error_msg
\* and finished_at iff attempts >= MaxAttempts(); otherwise it writes
\* Pending, error_msg = the error, available_at = now + RetryAfter() and
\* leaves attempts and finished_at as they are.
C9_FailureFinalization ==
    [][\A w \in Workers : \A r \in ErrTexts :
          WHandleReturn(w, r) =>
              LET j == rec[w].id
                  h == job[w] IN
              IF jobs[j].attempts >= h.max
              THEN /\ jobs'[j].state = JobFailed
                   /\ jobs'[j].error_msg = r
                   /\ jobs'[j].finished_at = now
              ELSE /\ jobs'[j].state = JobPending
                   /\ jobs'[j].error_msg = r
                   /\ jobs'[j].available_at = now + h.retry
                   /\ jobs'[j].attempts = jobs[j].attempts
                   /\ jobs'[j].finished_at = NoTime]_vars

\* C10: a claimed job whose type has no registry entry is written Failed
\* with the not-registered message and finished_at, without a Handle call;
\* it is never re-queued and its attempts stays at the value of its single
\* claim.
C10_Unregistered ==
    \A j \in JobIds :
        (started /\ ResolveJob(jobs[j].type) = NoHandler) =>
            /\ handleCount[j] = 0
            /\ ClaimCount(j) <= 1
            /\ jobs[j].state # JobFinished
            /\ jobs[j].state = JobPending =>
                  jobs[j].attempts = 0 /\ ClaimCount(j) = 0
            /\ jobs[j].state = JobStarted =>
                  jobs[j].attempts = 1 /\ jobs[j].finished_at = NoTime
            /\ jobs[j].state = JobFailed =>
                  /\ jobs[j].attempts = 1
                  /\ jobs[j].error_msg = NotRegisteredMsg(jobs[j].type)
                  /\ jobs[j].finished_at # NoTime

\* a job of an unregistered type that was claimed once and failed
C10_Witness ==
    \E j \in JobIds :
        /\ ResolveJob(jobs[j].type) = NoHandler
        /\ jobs[j].state = JobFailed
        /\ jobs[j].attempts = 1

\* ------------------------------------------------- Dispatch on a used table
\* rows a previous run of the process can have left in the table
PreRowShapes ==
    { [state |-> JobPending, attempts |-> 0, available_at |-> 0,
       started_at |-> NoTime, finished_at |-> NoTime, error_msg |-> ""],
      [state |-> JobPending, attempts |-> 1, available_at |-> 1,
       started_at |-> 0, finished_at |-> NoTime, error_msg |-> "timeout"],
      [state |-> JobStarted, attempts |-> 1, available_at |-> 0,
       started_at |-> 0, finished_at |-> NoTime, error_msg |-> ""],
      [state |-> JobFinished, attempts |-> 1, available_at |-> 0,
       started_at |-> 0, finished_at |-> 0, error_msg |-> ""],
      [state |-> JobFailed, attempts |-> 1, available_at |-> 0,
       started_at |-> 0, finished_at |-> 0, error_msg |-> "timeout"] }

PreRows ==
    { [f \in {"type", "created_at"} \cup DOMAIN sh |->
          IF f = "type" THEN t ELSE IF f = "created_at" THEN 0 ELSE sh[f]]
      : t \in JobTypes, sh \in PreRowShapes }

PreTables ==
    UNION { [1..n -> PreRows] : n \in 0..MaxPreRows }

InitDispatch ==
    /\ InitQueue
    /\ InitRegistry
    /\ InitScheduler
    /\ InitAppInstance
    /\ byPtr = FALSE
    /\ hasTable \in BOOLEAN
    /\ jobs \in PreTables
    /\ ~hasTable => jobs = <<>>
    /\ handleCount = [j \in 1..Len(jobs) |-> 0]

NextDispatch ==
    \/ Tick
    \/ CreateTable
    \/ DropTable
    \/ \E t \in JobTypes : \E m, i \in BOOLEAN : Dispatch(t, m, i)

SpecDispatch == InitDispatch /\ [][NextDispatch]_vars

\* C11: Dispatch inserts exactly one new row (Pending, attempts 0,
\* available_at = created_at = now), leaves every existing row unchanged and
\* returns nil without any worker having acted; it returns an error exactly
\* when serialization or the insert fails, and then adds no row.
C11_Dispatch ==
    [][\A t \in JobTypes : \A m, i \in BOOLEAN :
          Dispatch(t, m, i) =>
              IF m /\ i
              THEN /\ dispatchRet' = "nil"
                   /\ Len(jobs') = Len(jobs) + 1
                   /\ \A j \in JobIds : jobs'[j] = jobs[j]
                   /\ LET row == jobs'[Len(jobs')] IN
                         /\ row.type = t
                         /\ row.state = JobPending
                         /\ row.attempts = 0
                         /\ row.available_at = now
                         /\ row.created_at = now
                   /\ pc' = pc /\ winCount' = winCount
              ELSE /\ dispatchRet' = "error"
                   /\ jobs' = jobs]_vars

\* Dispatch returned nil on a table that already held a claimed row, with no
\* worker started; the old row is as it was and the new one is Pending
C11_Witness ==
    /\ dispatchRet = "nil"
    /\ ~started
    /\ Len(jobs) >= 2
    /\ jobs[1].state = JobStarted /\ jobs[1].attempts = 1
    /\ jobs[Len(jobs)].state = JobPending /\ jobs[Len(jobs)].attempts = 0
    /\ jobs[Len(jobs)].created_at = now

\* ------------------------------------------------------- progress, no shutdown
\* one step of worker w's loop, the store answering every select
WorkerStep(w) ==
    \/ WCheck(w)
    \/ WSelect(w)
    \/ WSelectNone(w)
    \/ WIdleRetry(w)
    \/ WClaim(w)
    \/ WResolve(w)
    \/ \E r \in HandleResults : WHandleReturn(w, r)

NextLive ==
    \/ Tick
    \/ \E h \in AppHandlers : RegisterJob(h)
    \/ \E t \in JobTypes : \E m, i \in BOOLEAN : Dispatch(t, m, i)
    \/ StartOnce
    \/ \E w \in Workers : WorkerStep(w)

\* every worker goroutine keeps being scheduled, every Handle call returns,
\* and time passes
SpecLive ==
    /\ Init
    /\ [][NextLive]_vars
    /\ WF_vars(Tick)
    /\ \A w \in Workers : WF_vars(WorkerStep(w))

WorkerRunning == \E w \in Workers : pc[w] \notin {"none", "exited"}

\* state of row j, "absent" while the row does not exist
RowState(j) == IF j <= Len(jobs) THEN jobs[j].state ELSE "absent"

\* row j is Pending and due
Due(j) == j <= Len(jobs) /\ jobs[j].state = JobPending /\ jobs[j].available_at <= now

\* a retry was scheduled for a time the modelled clock does not reach
BeyondClock(j) ==
    j <= Len(jobs) /\ jobs[j].state = JobPending /\ jobs[j].available_at > MaxTime

\* C12: with a worker running, no shutdown and fair scheduling, every
\* Pending row whose available_at is reached is eventually claimed, and every
\* dispatched job eventually is Finished or Failed (or waits for a retry
\* time beyond the end of the modelled clock).
C12_Progress ==
    \A j \in 1..(MaxJobs + MaxPreRows) :
        /\ (WorkerRunning /\ Due(j)) ~> (RowState(j) = JobStarted)
        /\ (WorkerRunning /\ j <= Len(jobs))
              ~> (RowState(j) \in Terminal \/ BeyondClock(j))

\* a job that was retried after its delay had passed and then finished
C12_Witness ==
    \E j \in JobIds :
        /\ WorkerRunning
        /\ jobs[j].state = JobFinished
        /\ jobs[j].attempts >= 2
        /\ ResolveJob(jobs[j].type).retry > 0

\* ------------------------------------------- draining a table of due jobs
\* a due row nobody has claimed yet
FreshRows == {r \in PreRows : r.state = JobPending /\ r.attempts = 0}

\* the table holds N due Pending rows, the handlers are registered
InitDrain ==
    /\ InitQueue
    /\ InitScheduler
    /\ InitAppInstance
    /\ byPtr = FALSE
    /\ hasTable = TRUE
    /\ \E h \in Handlers :
          /\ registry = [t \in JobTypes |-> IF t = h.type THEN h ELSE NoHandler]
          /\ lastReg = registry
    /\ held = [c \in Callers |-> NoResult]
    /\ objState = [h \in Handlers |-> 0]
    /\ seen = [c \in Callers |-> {}]
    /\ \E n \in 1..MaxPreRows : jobs \in [1..n -> FreshRows]
    /\ handleCount = [j \in 1..Len(jobs) |-> 0]

\* the workers run and every Handle call returns nil
NextDrain ==
    \/ Tick
    \/ StartOnce
    \/ \E w \in Workers : WCheck(w)
    \/ \E w \in Workers : WSelect(w)
    \/ \E w \in Workers : WSelectNone(w)
    \/ \E w \in Workers : WIdleRetry(w)
    \/ \E w \in Workers : WClaim(w)
    \/ \E w \in Workers : WResolve(w)
    \/ \E w \in Workers : WHandleReturn(w, NoErr)

SpecDrain == InitDrain /\ [][NextDrain]_vars

RECURSIVE TotalClaims(_)
TotalClaims(n) == IF n = 0 THEN 0 ELSE ClaimCount(n) + TotalClaims(n - 1)

Drained == \A j \in JobIds : jobs[j].state \in Terminal

\* C13: when every Handle call succeeds no job is claimed twice, and once
\* the N jobs are drained each was claimed exactly once: the successful
\* conditional updates of all workers together number exactly N.
C13_NoDoubleProcessing ==
    /\ \A j \in JobIds : ClaimCount(j) <= 1
    /\ \A j \in JobIds : jobs[j].state # JobPending => ClaimCount(j) = 1
    /\ Drained => TotalClaims(Len(jobs)) = Len(jobs)

\* all workers were started and the whole table of several jobs is drained
C13_Witness ==
    /\ Drained
    /\ Len(jobs) >= 2
    /\ \A w \in Workers : pc[w] # "none"
    /\ TotalClaims(Len(jobs)) = Len(jobs)

\* C14: a job whose handler failed on its first k executions and succeeded
\* on the next, with k < MaxAttempts(), is Finished with attempts = k + 1.
\* (A Finished row had handleCount executions: the last returned nil, the
\* k = handleCount - 1 before it failed.)
C14_FailThenSucceed ==
    \A j \in JobIds :
        (/\ jobs[j].state = JobFinished
         /\ handleCount[j] - 1 < ResolveJob(jobs[j].type).max)
            => jobs[j].attempts = handleCount[j]

\* C15 (as stated): once Shutdown has issued the cancellation signal no
\* worker performs a successful claim.
C15_NoClaimAfterCancel == \A w \in Workers : lateClaims[w] = 0

\* C15 (amended): after the cancellation signal each worker performs at most
\* one further successful claim, the one of the iteration it had begun before
\* the signal, and after that claim it never selects a row again.
C15_AtMostOneLateClaim ==
    \A w \in Workers :
        /\ lateClaims[w] <= 1
        /\ lateClaims[w] = 1 =>
              pc[w] \in {"resolve", "handle", "loop", "exited", "dead"}

C15_Witness ==
    \E w \in Workers : cancelled /\ lateClaims[w] = 1 /\ pc[w] = "exited"

InHandleAny == \E w \in Workers : pc[w] = "handle"

\* C16: a Shutdown whose deadline expires while a worker is inside Handle
\* returns the timeout error and touches neither the workers nor the table;
\* while the process lives a worker inside Handle leaves it only by Handle
\* returning, can always do so, and then writes the job's outcome (Finished,
\* Failed or retry Pending), also after Shutdown has returned.
C16_TimeoutDuringHandle ==
    [][ /\ (sd = "waiting" /\ sd' \notin {"waiting", "dead"} /\ InHandleAny)
            => (sd' = "timeout" /\ pc' = pc /\ jobs' = jobs /\ rec' = rec)
        /\ sd = "timeout" => sd' = "timeout"
        /\ \A w \in Workers :
              pc[w] = "handle" =>
                 /\ ENABLED WHandleReturn(w, NoErr)
                 /\ pc'[w] \notin {"handle", "dead"} =>
                       /\ pc'[w] = "loop"
                       /\ \E r \in HandleResults :
                             jobs'[rec[w].id] =
                                Finalize(jobs[rec[w].id], rec[w].attempts,
                                         job[w], r)
                       /\ jobs'[rec[w].id].state \in
                             {JobFinished, JobFailed, JobPending}
                       /\ (sd = "timeout") = (w \in lateFinal')
      ]_vars

C16_Witness ==
    /\ sd = "timeout"
    /\ \E w \in lateFinal : \E j \in JobIds : jobs[j].state \in Terminal

\* Shutdown has cancelled and every worker goroutine has returned
AllExited ==
    /\ started
    /\ cancelled
    /\ \A w \in Workers : pc[w] \in {"none", "exited"}

\* C17: once every worker has exited after Shutdown no row is Started; a
\* Pending row changes only by being claimed, and after the workers have
\* exited no row changes at all.
C17_ShutdownKeepsWork ==
    /\ [](AllExited => \A j \in JobIds : jobs[j].state # JobStarted)
    /\ [][ /\ \A j \in JobIds :
                jobs[j].state = JobPending =>
                   \/ jobs'[j] = jobs[j]
                   \/ \E w \in Workers :
                         /\ pc[w] = "claim" /\ pc'[w] = "resolve"
                         /\ rec[w].id = j
                         /\ jobs'[j].state = JobStarted
           /\ AllExited => \A j \in JobIds : jobs'[j] = jobs[j]
         ]_vars

C17_Witness ==
    /\ AllExited
    /\ sd \in {"nil", "timeout"}
    /\ \E w \in Workers : pc[w] = "exited"
    /\ \E j \in JobIds : jobs[j].state = JobPending /\ jobs[j].attempts >= 1

\* ------------------------------------------------- the registry by itself
\* the handler objects the application registers here
RegHandlers == {h \in Handlers : h.retry = 0 /\ h.max <= 2}

\* the application's job types are struct types or pointer types
InitReg ==
    /\ InitQueue
    /\ InitRegistry
    /\ InitScheduler
    /\ InitAppInstance
    /\ byPtr \in BOOLEAN
    /\ hasTable = TRUE
    /\ jobs = <<>>
    /\ handleCount = <<>>

NextReg ==
    \/ \E h \in RegHandlers : RegisterJob(h)
    \/ \E c \in Callers : \E t \in JobTypes : CallResolve(c, t)
    \/ \E c \in Callers : CallHandle(c)

SpecReg == InitReg /\ [][NextReg]_vars

\* C18: every Handle invocation runs on a fresh handler: it finds the
\* handler's field as it was when the handler was constructed (0), never a
\* value left by another invocation.
C18_FreshHandler == \A c \in Callers : seen[c] \subseteq {0}

\* C19: ResolveJob(t) succeeds exactly when a handler of type t has been
\* registered and then returns the handler registered last for t; for an
\* unregistered t it returns no handler and the not-registered error of t;
\* a ResolveJob call changes neither the registry nor any handler's state and
\* runs no Handle.
C19_RegistryLookup ==
    [][ \A c \in Callers :
          (held'[c] # held[c] /\ ~held'[c].handled) =>
             /\ held'[c].type \in JobTypes
             /\ IF lastReg[held'[c].type] = NoHandler
                THEN /\ held'[c].job = NoHandler
                     /\ held'[c].err = NotRegisteredMsg(held'[c].type)
                ELSE /\ held'[c].job = lastReg[held'[c].type]
                     /\ held'[c].job.type = held'[c].type
                     /\ held'[c].err = NoErr
             /\ registry' = registry
             /\ objState' = objState
             /\ seen' = seen
             /\ handleCount' = handleCount
      ]_vars

\* one caller got the not-registered error, two others resolved the same
\* type successfully, one before and one after a re-registration
C19_Witness ==
    \E c1, c2, c3 \in Callers :
        /\ held[c1].job # NoHandler
        /\ held[c1].job # lastReg[held[c1].type]
        /\ held[c2].job = lastReg[held[c1].type]
        /\ held[c2].err = NoErr
        /\ held[c3].type = "noop"
        /\ held[c3].job = NoHandler
        /\ held[c3].err = NotRegisteredMsg("noop")

\* ------------------------------------------------------- the scheduler
qvars == <<now, jobs, registry, started, cancelled, hasTable, pc, rec, start,
           sd, winCount, handleCount, dvars, lateClaims, lateFinal, rvars,
           xvars>>

\* RegisterScheduler(name, scheduler)
RegisterScheduler(name) ==
    /\ schedRegistry' = schedRegistry \cup {name}
    /\ UNCHANGED <<entries, schedStarted, cronRunning, clockStarts, ticks,
                   startCalls, invoked>>
    /\ UNCHANGED <<qvars, cvars>>

\* s.cron.AddFunc(spec, task) for the callback of each name in ns; an entry
\* is added unless the spec does not parse
AddEntries(ns) == [n \in SchedNames |-> IF n \in ns THEN entries[n] + 1 ELSE entries[n]]

\* Scheduler.AddTask(spec, task)
AddTask(name, specOk) ==
    /\ entries[name] < MaxEntries
    /\ entries' = IF specOk THEN AddEntries({name}) ELSE entries
    /\ UNCHANGED <<schedRegistry, schedStarted, cronRunning, clockStarts, ticks,
                   startCalls, invoked>>
    /\ UNCHANGED <<qvars, cvars>>

\* Scheduler.RunTasks(): AddTask for every registered handler; a failure is
\* logged and the loop goes on
RunTasks(okNames) ==
    /\ okNames \subseteq schedRegistry
    /\ \A n \in schedRegistry : entries[n] < MaxEntries
    /\ entries' = AddEntries(okNames)
    /\ UNCHANGED <<schedRegistry, schedStarted, cronRunning, clockStarts, ticks,
                   startCalls, invoked>>
    /\ UNCHANGED <<qvars, cvars>>

\* if !s.started
NotStartedAlways == TRUE

NotStarted == ~schedStarted

\* Scheduler.Start(); cron.Start launches the clock goroutine unless the cron
\* instance is already running
SchedulerStart ==
    /\ startCalls < MaxStartCalls
    /\ startCalls' = startCalls + 1
    /\ IF NotStarted
       THEN /\ schedStarted' = TRUE
            /\ cronRunning' = TRUE
            /\ clockStarts' = IF cronRunning THEN clockStarts ELSE clockStarts + 1
       ELSE UNCHANGED <<schedStarted, cronRunning, clockStarts>>
    /\ UNCHANGED <<schedRegistry, entries, ticks, invoked>>
    /\ UNCHANGED <<qvars, cvars>>

\* Scheduler.Stop(); cron.Stop ends the clock goroutine
SchedulerStop ==
    /\ cronRunning' = IF schedStarted THEN FALSE ELSE cronRunning
    /\ UNCHANGED <<schedRegistry, entries, schedStarted, clockStarts, ticks,
                   startCalls, invoked>>
    /\ UNCHANGED <<qvars, cvars>>

\* the running clock wakes up and starts the callback of every entry that is
\* due
CronTick(due) ==
    /\ cronRunning
    /\ ticks < MaxTicks
    /\ ticks' = ticks + 1
    /\ invoked' = [n \in SchedNames |-> IF n \in due THEN invoked[n] + entries[n]
                                        ELSE invoked[n]]
    /\ inflight' = inflight + (invoked'[Cleanup] - invoked[Cleanup])
                          + (invoked'[Report] - invoked[Report])
    /\ UNCHANGED <<schedRegistry, entries, schedStarted, cronRunning,
                   clockStarts, startCalls, ssd, lateReturns>>
    /\ UNCHANGED qvars

\* a running callback returns (jobWaiter.Done())
CallbackReturn ==
    /\ inflight > 0
    /\ inflight' = inflight - 1
    /\ lateReturns' = IF ssd = "timeout" THEN lateReturns + 1 ELSE lateReturns
    /\ UNCHANGED <<schedRegistry, entries, schedStarted, cronRunning,
                   clockStarts, ticks, startCalls, invoked, ssd>>
    /\ UNCHANGED qvars

\* Scheduler.Shutdown(ctx): returns nil when not started, else stopCtx :=
\* s.Stop() and waits
SchedulerShutdownCall ==
    /\ ssd = "idle"
    /\ IF ~schedStarted
       THEN ssd' = "nil" /\ UNCHANGED cronRunning
       ELSE ssd' = "waiting" /\ cronRunning' = FALSE
    /\ UNCHANGED <<schedRegistry, entries, schedStarted, clockStarts, ticks,
                   startCalls, invoked, inflight, lateReturns>>
    /\ UNCHANGED qvars

\* <-stopCtx.Done() is ready: jobWaiter.Wait() has returned
StopCtxDoneAlways == TRUE

StopCtxDone == inflight = 0

\* Scheduler.Shutdown: case <-stopCtx.Done(): return nil
SchedulerShutdownDone ==
    /\ ssd = "waiting"
    /\ StopCtxDone
    /\ ssd' = "nil"
    /\ UNCHANGED <<schedRegistry, entries, schedStarted, cronRunning,
                   clockStarts, ticks, startCalls, invoked, inflight,
                   lateReturns>>
    /\ UNCHANGED qvars

\* Scheduler.Shutdown: case <-ctx.Done(): return ctx.Err()
SchedulerShutdownTimeout ==
    /\ ssd = "waiting"
    /\ ssd' = "timeout"
    /\ UNCHANGED <<schedRegistry, entries, schedStarted, cronRunning,
                   clockStarts, ticks, startCalls, invoked, inflight,
                   lateReturns>>
    /\ UNCHANGED qvars

NextSched ==
    \/ \E n \in SchedNames : RegisterScheduler(n)
    \/ \E n \in SchedNames : \E ok \in BOOLEAN : AddTask(n, ok)
    \/ \E ns \in SUBSET SchedNames : RunTasks(ns)
    \/ SchedulerStart
    \/ SchedulerStop
    \/ \E due \in SUBSET SchedNames : CronTick(due)
    \/ CallbackReturn
    \/ SchedulerShutdownCall
    \/ SchedulerShutdownDone
    \/ SchedulerShutdownTimeout

SpecSched == Init /\ [][NextSched]_vars

\* C20: after any number of Start calls the clock has been launched exactly
\* once; a Start call on a started scheduler changes nothing of the
\* scheduler; no callback is invoked more often than once per tick and entry.
C20_StartIdempotent ==
    /\ [](/\ clockStarts <= 1
          /\ startCalls >= 1 => (schedStarted /\ clockStarts = 1)
          /\ \A n \in SchedNames : invoked[n] <= ticks * entries[n])
    /\ [][ (startCalls' # startCalls /\ schedStarted) =>
              UNCHANGED <<schedRegistry, entries, schedStarted, cronRunning,
                          clockStarts, ticks, invoked>>
         ]_vars

\* three Start calls, around a Stop, launched one clock, which ticked and
\* invoked a callback once
C20_Witness ==
    /\ startCalls = MaxStartCalls
    /\ clockStarts = 1
    /\ ~cronRunning
    /\ ticks >= 1
    /\ \E n \in SchedNames : entries[n] = 1 /\ invoked[n] = 1

\* C21: Shutdown on a started scheduler stops the clock for good, so that no
\* callback invocation begins from then on; it returns nil only when no
\* callback is running, or the timeout error, and neither return touches a
\* running callback, which can always go on to return; on a scheduler never
\* started it returns nil and changes nothing.
C21_SchedulerShutdown ==
    /\ [](ssd \in {"waiting", "timeout"} => (schedStarted /\ ~cronRunning))
    /\ [][ /\ (schedStarted /\ ~cronRunning) =>
                (~cronRunning' /\ invoked' = invoked /\ ticks' = ticks
                   /\ inflight' <= inflight)
           /\ (ssd = "idle" /\ ssd' # ssd) =>
                IF schedStarted
                THEN ssd' = "waiting" /\ ~cronRunning'
                ELSE ssd' = "nil" /\ UNCHANGED <<schedRegistry, entries,
                        schedStarted, cronRunning, clockStarts, ticks,
                        startCalls, invoked, inflight>>
           /\ (ssd = "waiting" /\ ssd' # ssd) =>
                /\ ssd' = "nil" => inflight = 0
                /\ ssd' \in {"nil", "timeout"}
                /\ inflight' = inflight
           /\ ssd \in {"nil", "timeout"} => ssd' = ssd
           /\ inflight > 0 => ENABLED CallbackReturn
           /\ inflight' < inflight => inflight' = inflight - 1
         ]_vars

\* Shutdown returned the timeout error and the callback that was running
\* then has returned since
C21_Witness ==
    /\ ssd = "timeout"
    /\ lateReturns >= 1
    /\ inflight = 0

\* ----------------------------------------------------- the application
\* bootstrap has built the queue and the scheduler: one handler and one
\* scheduler are registered and the table holds one fresh job
InitApp ==
    /\ InitQueue
    /\ InitAppInstance
    /\ byPtr = FALSE
    /\ hasTable = TRUE
    /\ \E h \in Handlers :
          /\ h.max = 1 /\ h.retry = 0
          /\ registry = [t \in JobTypes |-> IF t = h.type THEN h ELSE NoHandler]
    /\ lastReg = registry
    /\ held = [c \in Callers |-> NoResult]
    /\ objState = [h \in Handlers |-> 0]
    /\ seen = [c \in Callers |-> {}]
    /\ jobs = <<NewJobRow("email")>>
    /\ handleCount = <<0>>
    /\ schedRegistry = {Cleanup}
    /\ entries = [n \in SchedNames |-> 0]
    /\ schedStarted = FALSE
    /\ cronRunning = FALSE
    /\ clockStarts = 0
    /\ ticks = 0
    /\ startCalls = 0
    /\ invoked = [n \in SchedNames |-> 0]
    /\ inflight = 0
    /\ ssd = "idle"
    /\ lateReturns = 0

allButApp == <<now, jobs, registry, started, cancelled, hasTable, pc, rec,
               start, sd, winCount, handleCount, dvars, lateClaims, lateFinal,
               rvars, svars, tvars, job, helper, swapped>>

\* the signal arrives: AppInstance.Shutdown(ctx) begins with
\* ai.Fiber.Shutdown(), whose error is logged
AppSignal(fiberOk) ==
    /\ appPc = "nosignal"
    /\ started
    /\ startCall[1].pc = "done"
    /\ schedStarted
    /\ appPc' = "queue"
    /\ appLog' = IF fiberOk THEN appLog ELSE appLog \cup {"fiber"}
    /\ UNCHANGED <<appRet, lost, allButApp>>

\* AppInstance.Shutdown: ai.Queue.Shutdown(ctx) is called
AppQueueShutdown ==
    /\ appPc = "queue"
    /\ ShutdownCall

\* AppInstance.Shutdown: ai.Queue.Shutdown(ctx) returned; its error is logged
AppQueueReturned ==
    /\ appPc = "queue"
    /\ sd \in {"nil", "timeout"}
    /\ appPc' = "scheduler"
    /\ appLog' = IF sd = "timeout" THEN appLog \cup {"queue"} ELSE appLog
    /\ UNCHANGED <<appRet, lost, allButApp>>

\* AppInstance.Shutdown: ai.Scheduler.Shutdown(ctx) is called
AppSchedulerShutdown ==
    /\ appPc = "scheduler"
    /\ SchedulerShutdownCall

\* what AppInstance.Shutdown returns after the three shutdowns
AppShutdownResult == "nil"

\* AppInstance.Shutdown: ai.Scheduler.Shutdown(ctx) returned; its error is
\* logged; return
AppReturn ==
    /\ appPc = "scheduler"
    /\ ssd \in {"nil", "timeout"}
    /\ appPc' = "returned"
    /\ appLog' = IF ssd = "timeout" THEN appLog \cup {"scheduler"} ELSE appLog
    /\ appRet' = AppShutdownResult
    /\ UNCHANGED <<lost, allButApp>>

\* setupGracefulShutdown: the handler logs the outcome
SignalHandlerLog ==
    /\ appPc = "returned"
    /\ appPc' = "done"
    /\ appLog' = appLog \cup {IF appRet = "nil" THEN "graceful" ELSE "shutdown error"}
    /\ UNCHANGED <<appRet, lost, allButApp>>

NextApp ==
    \/ StartOnce
    \/ \E ns \in SUBSET SchedNames : RunTasks(ns)
    \/ SchedulerStart
    \/ \E w \in Workers : WCheck(w)
    \/ \E w \in Workers : WSelect(w)
    \/ \E w \in Workers : WSelectNone(w)
    \/ \E w \in Workers : WSelectError(w)
    \/ \E w \in Workers : WIdleExit(w)
    \/ \E w \in Workers : WIdleRetry(w)
    \/ \E w \in Workers : WClaim(w)
    \/ \E w \in Workers : WResolve(w)
    \/ \E w \in Workers : WHandleReturn(w, NoErr)
    \/ \E due \in SUBSET SchedNames : CronTick(due)
    \/ CallbackReturn
    \/ \E ok \in BOOLEAN : AppSignal(ok)
    \/ AppQueueShutdown
    \/ HelperWait
    \/ HelperWake
    \/ ShutdownDone
    \/ ShutdownTimeout
    \/ AppQueueReturned
    \/ AppSchedulerShutdown
    \/ SchedulerShutdownDone
    \/ SchedulerShutdownTimeout
    \/ AppReturn
    \/ SignalHandlerLog

SpecApp == InitApp /\ [][NextApp]_vars

\* C22: when the deadline elapsed in Queue.Shutdown or Scheduler.Shutdown,
\* AppInstance.Shutdown returns an error and the signal handler does not
\* report a graceful shutdown.
C22_DeadlineSurfaced ==
    (appPc \in {"returned", "done"} /\ (sd = "timeout" \/ ssd = "timeout"))
        => (appRet = "error" /\ "graceful" \notin appLog)

\* ------------------------------------------------------------- crashes
\* a worker stops forever between its claim and its finalize write
Crash(w) ==
    /\ pc[w] \in {"resolve", "handle"}
    /\ pc' = [pc EXCEPT ![w] = "crashed"]
    /\ UNCHANGED <<now, jobs, registry, started, cancelled, hasTable, rec,
                   start, sd, winCount, handleCount>>
    /\ UNCHANGED <<dvars, lateClaims, lateFinal, rvars, svars, xvars>>

NextCrash ==
    \/ Next
    \/ \E w \in Workers : Crash(w)

SpecCrash == Init /\ [][NextCrash]_vars

\* the rows whose claimant has crashed
Stuck == {j \in JobIds : \E w \in Workers : pc[w] = "crashed" /\ rec[w].id = j}

\* C23: the row of a crashed claimant is Started and never changes again;
\* a select never returns a Started row, a claim never succeeds on one, and
\* a Started row is written only by its claimant's finalize.
C23_CrashGap ==
    /\ [](\A j \in Stuck : jobs[j].state = JobStarted)
    /\ [][ /\ \A j \in Stuck : jobs'[j] = jobs[j]
           /\ \A w \in Workers :
                 (pc[w] = "select" /\ pc'[w] = "claim")
                     => jobs[rec'[w].id].state = JobPending
           /\ \A j \in JobIds :
                 (jobs[j].state = JobStarted /\ jobs'[j] # jobs[j]) =>
                     \E w \in Owners(j) : pc'[w] = "loop" /\ rec'[w] = NoRec
         ]_vars

\* a claimant has crashed, time has passed and the other worker has polled
\* and found nothing to do
C23_Witness ==
    \E w, v \in Workers :
        /\ pc[w] = "crashed"
        /\ jobs[rec[w].id].state = JobStarted
        /\ jobs[rec[w].id].started_at < now
        /\ pc[v] = "idle"

\* ------------------------------------------------------- the select
\* the rows a table can hold at time t: dispatched, re-queued after a
\* failure, claimed, finished, failed
RowsAt(t) ==
    LET base(c) == [type |-> "email", created_at |-> c, error_msg |-> "",
                    finished_at |-> NoTime]
        retried == {p \in (0..t) \X (0..(t + MaxRetryAfter)) : p[1] <= p[2]}
    IN  { base(c) @@
            [state |-> JobPending, attempts |-> 0, available_at |-> c,
             started_at |-> NoTime] : c \in 0..t }
        \cup
        { [base(p[1]) EXCEPT !.error_msg = "timeout"] @@
            [state |-> JobPending, attempts |-> 1, available_at |-> p[2],
             started_at |-> p[1]] : p \in retried }
        \cup
        { [base(c) EXCEPT !.finished_at = IF st = JobStarted THEN NoTime ELSE t] @@
            [state |-> st, attempts |-> 1, available_at |-> c,
             started_at |-> c] : c \in 0..t, st \in {JobStarted, JobFinished, JobFailed} }

\* tables of such rows, in the order of their insertion
TablesAt(t) ==
    { tb \in UNION { [1..n -> RowsAt(t)] : n \in 1..MaxPreRows } :
         \A i, k \in DOMAIN tb : i <= k => tb[i].created_at <= tb[k].created_at }

\* a started queue whose workers are about to poll
InitSelect ==
    /\ InitRegistry
    /\ InitScheduler
    /\ InitAppInstance
    /\ byPtr = FALSE
    /\ hasTable = TRUE
    /\ now \in 0..MaxTime
    /\ jobs \in TablesAt(now)
    /\ handleCount = [j \in 1..Len(jobs) |-> 0]
    /\ started = TRUE
    /\ cancelled = FALSE
    /\ pc = [w \in Workers |-> "select"]
    /\ rec = [w \in Workers |-> NoRec]
    /\ start = [w \in Workers |-> NoTime]
    /\ sd = "idle"
    /\ winCount = [p \in ClaimPairs |-> 0]
    /\ dispatched = 0
    /\ dispatchRet = "none"
    /\ lateClaims = [w \in Workers |-> 0]
    /\ lateFinal = {}
    /\ startCall = [c \in Starters |-> IdleCall]
    /\ startHist = NoStarts
    /\ job = [w \in Workers |-> NoHandler]
    /\ helper = "none"
    /\ swapped = {}

NextSelect ==
    \/ Tick
    \/ \E w \in Workers : WSelect(w)
    \/ \E w \in Workers : WSelectNone(w)
    \/ \E w \in Workers : WIdleRetry(w)
    \/ \E w \in Workers : WCheck(w)

SpecSelect == InitSelect /\ [][NextSelect]_vars

\* the row with this id is Pending and due
IsDue(j) == jobs[j].state = JobPending /\ jobs[j].available_at <= now

\* C24: a poll returns a row exactly when some row is Pending with
\* available_at <= now; the row returned is such a row and none of them has
\* a smaller created_at.
C24_EligibilitySelect ==
    [][ \A w \in Workers :
          (pc[w] = "select" /\ pc'[w] # "select") =>
             IF \E j \in JobIds : IsDue(j)
             THEN /\ pc'[w] = "claim"
                  /\ rec'[w].id \in JobIds
                  /\ IsDue(rec'[w].id)
                  /\ rec'[w].attempts = jobs[rec'[w].id].attempts
                  /\ \A k \in JobIds :
                        IsDue(k) => jobs[rec'[w].id].created_at <= jobs[k].created_at
             ELSE pc'[w] = "idle" /\ rec'[w] = NoRec
      ]_vars

\* a poll returned the second row, passing over an older Pending row that
\* is not due yet
C24_Witness ==
    \E w \in Workers :
        /\ pc[w] = "claim"
        /\ rec[w].id = 2
        /\ jobs[1].state = JobPending
        /\ jobs[1].available_at > now
        /\ jobs[1].created_at < jobs[2].created_at

\* C25: a worker whose conditional update finds its row no longer Pending
\* writes nothing to the table, starts no Handle, and is back at the
\* cancellation check in that same step (the process living on).
C25_LostRace ==
    [][ \A w \in Workers :
          (/\ pc[w] = "claim"
           /\ jobs[rec[w].id].state # JobPending
           /\ pc'[w] \notin {"claim", "dead"})
             => /\ jobs' = jobs
                /\ handleCount' = handleCount
                /\ winCount' = winCount
                /\ pc'[w] = "loop"
                /\ rec'[w] = NoRec
      ]_vars

\* a worker has lost a race and the winner is inside Handle on a row that is
\* as the winner's claim wrote it
C25_Witness ==
    \E w \in lost : \E v \in Workers \ {w} :
        /\ pc[w] = "loop"
        /\ pc[v] = "handle"
        /\ jobs[rec[v].id].state = JobStarted
        /\ jobs[rec[v].id].attempts = 1
        /\ handleCount[rec[v].id] = 1

\* ----------------------------------------------- shutdown, with fairness
\* one step of worker w's loop, store errors and the exit from the idle wait
\* included
WorkerAnyStep(w) ==
    \/ WCheck(w)
    \/ WSelect(w)
    \/ WSelectNone(w)
    \/ WSelectError(w)
    \/ WIdleExit(w)
    \/ WIdleRetry(w)
    \/ WClaim(w)
    \/ WResolve(w)
    \/ \E r \in {NoErr, "smtp down"} : WHandleReturn(w, r)

\* a table of one or two fresh jobs of a registered handler
InitStop ==
    /\ InitQueue
    /\ InitScheduler
    /\ InitAppInstance
    /\ byPtr = FALSE
    /\ hasTable = TRUE
    /\ \E h \in {g \in Handlers : g.max <= 2 /\ g.retry = 0} :
          registry = [t \in JobTypes |-> IF t = h.type THEN h ELSE NoHandler]
    /\ lastReg = registry
    /\ held = [c \in Callers |-> NoResult]
    /\ objState = [h \in Handlers |-> 0]
    /\ seen = [c \in Callers |-> {}]
    /\ \E n \in 1..MaxPreRows : jobs = [j \in 1..n |-> NewJobRow("email")]
    /\ handleCount = [j \in 1..Len(jobs) |-> 0]

NextStop ==
    \/ StartOnce
    \/ StartSpawnPanic(1)
    \/ \E w \in Workers : WorkerAnyStep(w)
    \/ ShutdownCall
    \/ HelperWait
    \/ HelperWake
    \/ HelperWaitPanic
    \/ ShutdownDone
    \/ ShutdownTimeout

\* a table of fresh jobs; every worker goroutine keeps being scheduled and
\* every Handle call returns
SpecStop ==
    /\ InitStop
    /\ [][NextStop]_vars
    /\ \A w \in Workers : WF_vars(WorkerAnyStep(w))

\* C26: a select that finds no row or fails writes nothing and leads to the
\* idle wait, which writes nothing and ends in the worker's exit, only if
\* cancellation was signalled, or in the next loop iteration; once
\* cancellation is signalled every worker eventually has exited (unless the
\* process has ended), and while Shutdown waits with all workers gone its
\* goroutine can finish waiting and Shutdown can then return nil.
C26_IdleAndExit ==
    /\ [][ \A w \in Workers :
             /\ (pc[w] = "select" /\ pc'[w] = "idle") => jobs' = jobs
             /\ (pc[w] = "idle" /\ pc'[w] \notin {"idle", "dead"}) =>
                   /\ jobs' = jobs
                   /\ \/ pc'[w] = "exited" /\ cancelled
                      \/ pc'[w] = "loop"
         ]_vars
    /\ []((sd = "waiting" /\ AllExited) =>
            \/ helper = "spawned" /\ ENABLED HelperWait
            \/ helper \in {"released", "reused"} /\ ENABLED HelperWake
            \/ helper = "closed" /\ ENABLED ShutdownDone)
    /\ cancelled ~> (AllExited \/ ~Alive)

\* Shutdown returned nil after both workers had exited, one job done and
\* one left Pending
C26_Witness ==
    /\ sd = "nil"
    /\ \A w \in Workers : pc[w] = "exited"
    /\ \E j \in JobIds : jobs[j].state = JobFinished
    /\ \E j \in JobIds : jobs[j].state = JobPending

\* C27: the write after a failed Handle sets error_msg to the text of that
\* error, whatever it held; the claim write and the write after a successful
\* Handle leave error_msg as it is.
C27_LastFailureOnly ==
    [][ /\ \A w \in Workers : \A r \in HandleResults :
              WHandleReturn(w, r) =>
                 jobs'[rec[w].id].error_msg =
                    IF r = NoErr THEN jobs[rec[w].id].error_msg ELSE r
        /\ \A j \in JobIds :
              ClaimedStep(j) => jobs'[j].error_msg = jobs[j].error_msg
      ]_vars

\* C28: in every row, finished_at is set exactly when the state is Finished
\* or Failed, started_at is set exactly when attempts >= 1, and a Started,
\* Finished or Failed row has attempts >= 1.
C28_Timestamps ==
    \A j \in JobIds :
        /\ (jobs[j].finished_at # NoTime) <=> (jobs[j].state \in Terminal)
        /\ (jobs[j].started_at # NoTime) <=> (jobs[j].attempts >= 1)
        /\ jobs[j].state \in {JobStarted, JobFinished, JobFailed}
              => jobs[j].attempts >= 1

\* a job that was re-queued once and then failed for good, at a later time
C28_Witness ==
    \E j \in JobIds :
        /\ jobs[j].state = JobFailed
        /\ jobs[j].attempts >= 2
        /\ jobs[j].started_at # NoTime
        /\ jobs[j].finished_at > jobs[j].created_at

\* ------------------------------------- Queue.Start and the jobs table
\* one handler is registered; the jobs table exists or not
InitStart ==
    /\ InitQueue
    /\ InitScheduler
    /\ InitAppInstance
    /\ byPtr = FALSE
    /\ hasTable \in BOOLEAN
    /\ \E h \in {g \in Handlers : g.max = 1 /\ g.retry = 0} :
          registry = [t \in JobTypes |-> IF t = h.type THEN h ELSE NoHandler]
    /\ lastReg = registry
    /\ held = [c \in Callers |-> NoResult]
    /\ objState = [h \in Handlers |-> 0]
    /\ seen = [c \in Callers |-> {}]
    /\ jobs = <<>>
    /\ handleCount = <<>>

NextStart ==
    \/ \E c \in Starters : \E n \in 0..NumWorkers : StartCall(c, n)
    \/ \E c \in Starters : StartCheckTable(c)
    \/ \E c \in Starters : StartSpawn(c)
    \/ \E c \in Starters : StartSpawnPanic(c)
    \/ CreateTable
    \/ DropTable
    \/ Dispatch("email", TRUE, TRUE)
    \/ \E w \in Workers : WCheck(w)
    \/ \E w \in Workers : WSelect(w)
    \/ \E w \in Workers : WSelectNone(w)
    \/ \E w \in Workers : WSelectError(w)
    \/ \E w \in Workers : WIdleExit(w)
    \/ \E w \in Workers : WIdleRetry(w)
    \/ \E w \in Workers : WClaim(w)
    \/ \E w \in Workers : WResolve(w)
    \/ \E w \in Workers : WHandleReturn(w, NoErr)
    \/ ShutdownCall
    \/ HelperWait
    \/ HelperWake
    \/ HelperWaitPanic
    \/ ShutdownDone
    \/ ShutdownTimeout

SpecStart == InitStart /\ [][NextStart]_vars

\* worker goroutines that are running
LiveWorkers == {w \in Workers : pc[w] \notin {"none", "exited", "dead"}}

\* C29: only the first Start call spawns workers: exactly its workerCount
\* when it found the jobs table, none when it did not; no later call spawns
\* any; the workers running never outnumber the first call's workerCount.
C29_StartOneShot ==
    /\ \A k \in 2..MaxQStarts : startHist.spawned[k] = 0
    /\ startHist.spawned[1] <= startHist.firstN
    /\ startHist.firstDone =>
          startHist.spawned[1] =
             IF startHist.firstTable = "yes" THEN startHist.firstN ELSE 0
    /\ Cardinality(LiveWorkers) <= startHist.firstN

\* the first call found no table and spawned nothing; the table appeared,
\* Shutdown ran, and two more calls returned without spawning
C29_Witness ==
    /\ startHist.calls = MaxQStarts
    /\ startHist.firstDone
    /\ startHist.firstTable = "no"
    /\ startHist.firstN = NumWorkers
    /\ hasTable
    /\ sd = "nil"
    /\ \A c \in Starters : startCall[c].pc = "done"

\* C30: once Shutdown on a started queue has returned nil no worker writes a
\* row (the rows change only by the table being dropped), no claim succeeds
\* and no Handle begins, also for workers that the Start call spawns after
\* the counter was seen at zero: such a worker is at its cancellation check
\* when Shutdown returns; Shutdown on a queue not started returns nil and
\* leaves the context alone.
C30_Quiescence ==
    [][ /\ (sd = "nil" /\ cancelled) =>
              /\ \A w \in Workers : pc'[w] \notin {"claim", "resolve", "handle"}
              /\ \/ hasTable /\ ~hasTable'
                 \/ /\ \A j \in JobIds : jobs'[j] = jobs[j]
                    /\ \A j \in JobIds : handleCount'[j] = handleCount[j]
                    /\ winCount' = winCount
        /\ (sd = "idle" /\ sd' # sd /\ ~started) =>
              (sd' = "nil" /\ ~cancelled' /\ pc' = pc)
        /\ (sd = "waiting" /\ sd' = "nil") =>
              \A w \in LiveWorkers : pc[w] = "loop"
      ]_vars

\* Shutdown has returned nil, a job is due, and Start has just spawned a
\* worker
C30_Witness ==
    /\ sd = "nil"
    /\ cancelled
    /\ \E j \in JobIds : IsDue(j)
    /\ \E w \in Workers : pc[w] = "loop"
    /\ \E c \in Starters : startCall[c].pc = "spawn"

====
